---------------------------- MODULE Spec2Model ----------------------------
(***************************************************************************)
(* A model of gefsv12_retro_kerchunk/kerchunk_zarr.py: the class           *)
(* RetrospectivePull.  Three specifications share the object's fields:     *)
(*   SpecEnum  the pure enumeration methods date_to_glob_pattern and       *)
(*             generate_reforecast_uris, called on a constructed object;   *)
(*   Spec      the constructor __init__, with the fetch stage              *)
(*             work_coroutine and its failure paths;                       *)
(*   SpecGen   generate_json_files on a constructed object.                *)
(* Strings that the code splits on "/" are kept as the sequence of their   *)
(* "/"-separated segments, so that split("/")[k] is segment k+1.           *)
(***************************************************************************)
EXTENDS Integers, Sequences, FiniteSets, TLC

VARIABLES
    pc,                       \* position in the method being executed
    date,                     \* self.date / the date argument: <<y, m, d>>
    fhour,                    \* self.fhour
    centered_date_range,      \* self.centered_date_range
    members,                  \* self.members (a list)
    forecast_horizon,         \* self.forecast_horizon
    order,                    \* iteration order of the month-day set (environment)
    message_num,              \* self.message_num
    error,                    \* message of the exception that ended the method
    glob_pattern,             \* self.glob_pattern (a list)
    reforecast_urls,          \* self.reforecast_urls (a list)
    representative_json_data, \* self.representative_json_data (identity of a dict)
    session,                  \* the s3 client session: "none", "open", "closed"
    issued,                   \* remote requests issued so far
    idx_files,                \* self.idx_files: list of <<key, content>> in dict order
    files_info,               \* self.files_info: list of sizes
    files_metadata_dict,      \* self.files_metadata_dict: list of <<key, size>>
    heap,                     \* the dict objects, by identity
    directory_set,            \* whether self.directory was assigned
    data_to_replace,          \* generate_json_files: identity of the dict patched per file
    todo,                     \* generate_json_files: file_locations not yet visited
    written                   \* the output directory: the <<file name, document>> pairs

vars == <<pc, date, fhour, centered_date_range, members, forecast_horizon,
          order, message_num, error, glob_pattern, reforecast_urls,
          representative_json_data, session, issued, idx_files, files_info,
          files_metadata_dict, heap, directory_set, data_to_replace, todo,
          written>>

-----------------------------------------------------------------------------
(* Bounds of the model. *)

MaxW == 3
MaxOrder == 1
MaxFhour == 12

-----------------------------------------------------------------------------
(* Calendar arithmetic behind datetime +- timedelta and pd.date_range.     *)

IsLeap(y) == y % 4 = 0 /\ (y % 100 # 0 \/ y % 400 = 0)

DaysInMonth(y, m) ==
    IF m = 2 THEN (IF IsLeap(y) THEN 29 ELSE 28)
    ELSE IF m \in {4, 6, 9, 11} THEN 30 ELSE 31

DaysBeforeYear(y) ==
    LET p == y - 1 IN p * 365 + p \div 4 - p \div 100 + p \div 400

RECURSIVE DaysBeforeMonth(_, _)
DaysBeforeMonth(y, m) ==
    IF m = 1 THEN 0 ELSE DaysBeforeMonth(y, m - 1) + DaysInMonth(y, m - 1)

\* date.toordinal(): 0001-01-01 is day 1
ymd2ord(d) == DaysBeforeYear(d[1]) + DaysBeforeMonth(d[1], d[2]) + d[3]

RECURSIVE MonthOf(_, _, _)
MonthOf(y, m, n) ==
    IF n < DaysInMonth(y, m) THEN <<y, m, n + 1>>
    ELSE MonthOf(y, m + 1, n - DaysInMonth(y, m))

\* date.fromordinal(): the 400/100/4/1-year cycle decomposition
ord2ymd(o) ==
    LET n0   == o - 1
        n400 == n0 \div 146097
        r400 == n0 % 146097
        n100 == r400 \div 36524
        r100 == r400 % 36524
        n4   == r100 \div 1461
        r4   == r100 % 1461
        n1   == r4 \div 365
        r1   == r4 % 365
        year == n400 * 400 + n100 * 100 + n4 * 4 + n1 + 1
    IN  IF n1 = 4 \/ n100 = 4 THEN <<year - 1, 12, 31>>
        ELSE MonthOf(year, 1, r1)

Digit(n) == <<"0", "1", "2", "3", "4", "5", "6", "7", "8", "9">>[n + 1]

\* f"{n:02}" for 0 <= n <= 99
Fmt02(n) == Digit(n \div 10) \o Digit(n % 10)


-----------------------------------------------------------------------------
(* Small helpers on lists. *)

Range(s) == {s[i] : i \in 1..Len(s)}

\* a + b for two strings held as "/"-separated segments
Cat(a, b) == SubSeq(a, 1, Len(a) - 1) \o <<a[Len(a)] \o b[1]>> \o Tail(b)

MonthDayLess(a, b) == a[1] < b[1] \/ (a[1] = b[1] /\ a[2] < b[2])

RECURSIVE Ascending(_)
Ascending(S) ==
    IF S = {} THEN <<>>
    ELSE LET lo == CHOOSE x \in S : \A y \in S \ {x} : MonthDayLess(x, y)
         IN  <<lo>> \o Ascending(S \ {lo})

-----------------------------------------------------------------------------
(* fhour_to_message_num: the value returned, or the assertion that fails.  *)

fhour_to_message_num_no_offset(fh) ==
    IF fh = 0 THEN [ok |-> FALSE, value |-> 0, msg |-> "No hour 0 forecast available"]
    ELSE IF fh % 3 # 0
         THEN [ok |-> FALSE, value |-> 0, msg |-> "Forecast hour must be divisible by 3"]
         ELSE [ok |-> TRUE, value |-> fh \div 3, msg |-> "none"]

fhour_to_message_num_unchecked(fh) ==
    [ok |-> TRUE, value |-> (fh \div 3) - 1, msg |-> "none"]

fhour_to_message_num(fh) ==
    IF fh = 0 THEN [ok |-> FALSE, value |-> 0, msg |-> "No hour 0 forecast available"]
    ELSE IF fh % 3 # 0
         THEN [ok |-> FALSE, value |-> 0, msg |-> "Forecast hour must be divisible by 3"]
         ELSE [ok |-> TRUE, value |-> (fh \div 3) - 1, msg |-> "none"]

-----------------------------------------------------------------------------
(* date_to_glob_pattern *)

\* pd.date_range(datetime_min, datetime_max, freq="D"): every day from
\* datetime_min up to and including datetime_max (empty when min > max)
date_range(omin, omax) == [i \in 1..(omax - omin + 1) |-> ord2ymd(omin + i - 1)]

\* the order in which a set is iterated is not the order of insertion: the
\* environment picks it; the model draws it from the rotations of the
\* ascending order (rotation 0 is the sorted one)
SetIteration(S, rot) ==
    LET asc == Ascending(S)
        n   == Len(asc)
        r   == IF n = 0 THEN 0 ELSE rot % n
    IN  SubSeq(asc, r + 1, n) \o SubSeq(asc, 1, r)

date_to_glob_pattern_open_end(d, W, rot) ==
    LET datetime_min   == ymd2ord(d) - W
        datetime_max   == ymd2ord(d) + W
        datetime_range == date_range(datetime_min, datetime_max - 1)
        month_day_combinations ==
            {<<datetime_range[i][2], datetime_range[i][3]>> :
                 i \in 1..Len(datetime_range)}
        it == SetIteration(month_day_combinations, rot)
    IN  [i \in 1..Len(it) |-> Fmt02(it[i][1]) \o Fmt02(it[i][2])]

date_to_glob_pattern(d, W, rot) ==
    LET datetime_min   == ymd2ord(d) - W
        datetime_max   == ymd2ord(d) + W
        datetime_range == date_range(datetime_min, datetime_max)
        month_day_combinations ==
            {<<datetime_range[i][2], datetime_range[i][3]>> :
                 i \in 1..Len(datetime_range)}
        it == SetIteration(month_day_combinations, rot)
    IN  [i \in 1..Len(it) |-> Fmt02(it[i][1]) \o Fmt02(it[i][2])]

-----------------------------------------------------------------------------
(* generate_reforecast_uris *)

base_s3_reforecast ==
    <<"s3:", "", "noaa-gefs-retrospective", "GEFSv12", "reforecast", "">>

variable == "pres_msl"

FirstYear == 2000
StopYear == 2020

WithDay(yearly_rf_patterns, globs) == Cat(yearly_rf_patterns, <<globs \o "00", "">>)

WithFileName_shifted(subpath) ==
    Cat(subpath,
        <<variable \o "_" \o subpath[6] \o "_" \o subpath[7] \o ".grib2.idx">>)

WithFileName(subpath) ==
    Cat(subpath,
        <<variable \o "_" \o subpath[7] \o "_" \o subpath[8] \o ".grib2.idx">>)

generate_reforecast_uris(glob_patterns, mems, horizon) ==
    LET reforecast_patterns ==
            [i \in 1..(StopYear - FirstYear) |->
                Cat(base_s3_reforecast,
                    <<ToString(FirstYear + i - 1), ToString(FirstYear + i - 1)>>)]
        \* for yearly_rf_patterns in ... for globs in glob_patterns
        reforecast_patterns_w_days ==
            [n \in 1..(Len(reforecast_patterns) * Len(glob_patterns)) |->
                WithDay(reforecast_patterns[((n - 1) \div Len(glob_patterns)) + 1],
                        glob_patterns[((n - 1) % Len(glob_patterns)) + 1])]
        \* for daily_rf_patterns in ... for member in self.members
        reforecast_patterns_w_members_horizon ==
            [n \in 1..(Len(reforecast_patterns_w_days) * Len(mems)) |->
                Cat(reforecast_patterns_w_days[((n - 1) \div Len(mems)) + 1],
                    <<mems[((n - 1) % Len(mems)) + 1], horizon, "">>)]
    IN  [n \in 1..Len(reforecast_patterns_w_members_horizon) |->
            WithFileName(reforecast_patterns_w_members_horizon[n])]

-----------------------------------------------------------------------------
(* SpecEnum: lines 86 and 93 on their own, over a wide set of arguments.   *)

\* every day of a leap year, and the months of a common year that hold its
\* year boundary and its February / March boundary
EnumDates ==
    {x \in {<<y, m, d>> : y \in {2023, 2024}, m \in 1..12, d \in 1..31} :
        /\ x[3] <= DaysInMonth(x[1], x[2])
        /\ (x[1] = 2023 => x[2] \in {1, 2, 3, 12})}

\* lists of member tokens: a single one, two out of alphabetical order, and a
\* repeated one
MemberLists == {<<"c00">>, <<"p01", "c00">>, <<"c00", "c00">>}

Horizons == {"Days:1-10"}

InitEnum ==
    /\ pc = "enum_start"
    /\ date \in EnumDates
    /\ centered_date_range \in 0..MaxW
    /\ order \in 0..MaxOrder
    /\ members \in MemberLists
    /\ forecast_horizon \in Horizons
    /\ fhour = 3
    /\ message_num = 0
    /\ error = "none"
    /\ glob_pattern = <<>>
    /\ reforecast_urls = <<>>
    /\ representative_json_data = 0
    /\ session = "none"
    /\ issued = <<>>
    /\ idx_files = <<>>
    /\ files_info = <<>>
    /\ files_metadata_dict = <<>>
    /\ heap = <<>>
    /\ directory_set = TRUE
    /\ data_to_replace = 0
    /\ todo = <<>>
    /\ written = {}

\* line 86: self.glob_pattern = self.date_to_glob_pattern(self.date)
EnumGlob ==
    /\ pc = "enum_start"
    /\ glob_pattern' = date_to_glob_pattern(date, centered_date_range, order)
    /\ pc' = "enum_globbed"
    /\ UNCHANGED <<date, fhour, centered_date_range, members, forecast_horizon,
                   order, message_num, error, reforecast_urls,
                   representative_json_data, session, issued, idx_files,
                   files_info, files_metadata_dict, heap, directory_set,
                   data_to_replace, todo, written>>

\* line 93: self.reforecast_urls = self.generate_reforecast_uris(self.glob_pattern)
EnumUris ==
    /\ pc = "enum_globbed"
    /\ reforecast_urls' =
           generate_reforecast_uris(glob_pattern, members, forecast_horizon)
    /\ pc' = "enum_done"
    /\ UNCHANGED <<date, fhour, centered_date_range, members, forecast_horizon,
                   order, message_num, error, glob_pattern,
                   representative_json_data, session, issued, idx_files,
                   files_info, files_metadata_dict, heap, directory_set,
                   data_to_replace, todo, written>>

NextEnum == EnumGlob \/ EnumUris

SpecEnum == InitEnum /\ [][NextEnum]_vars

-----------------------------------------------------------------------------
(* The calendar as the claims speak of it: one day after another.          *)

NextDay(d) ==
    IF d[3] < DaysInMonth(d[1], d[2]) THEN <<d[1], d[2], d[3] + 1>>
    ELSE IF d[2] < 12 THEN <<d[1], d[2] + 1, 1>>
    ELSE <<d[1] + 1, 1, 1>>

PrevDay(d) ==
    IF d[3] > 1 THEN <<d[1], d[2], d[3] - 1>>
    ELSE IF d[2] > 1 THEN <<d[1], d[2] - 1, DaysInMonth(d[1], d[2] - 1)>>
    ELSE <<d[1] - 1, 12, 31>>

RECURSIVE DayShift(_, _)
DayShift(d, k) ==
    IF k = 0 THEN d
    ELSE IF k > 0 THEN DayShift(NextDay(d), k - 1)
    ELSE DayShift(PrevDay(d), k + 1)

MMDD(d) == Fmt02(d[2]) \o Fmt02(d[3])

NoRepeats(s) == Cardinality(Range(s)) = Len(s)

\* C2: date_to_glob_pattern returns, without duplicates, exactly the "MMDD"
\* strings of the calendar days of [date - W, date + W], also across a
\* Dec 31 / Jan 1 boundary (2023-12-31 with W = 3: 1228..1231, 0101..0103).
C2_WindowPatterns ==
    pc \in {"enum_globbed", "enum_done"} =>
        /\ NoRepeats(glob_pattern)
        /\ Range(glob_pattern) =
               {MMDD(DayShift(date, k)) :
                    k \in (0 - centered_date_range)..centered_date_range}
        /\ (date = <<2023, 12, 31>> /\ centered_date_range = 3 =>
               Range(glob_pattern) =
                   {"1228", "1229", "1230", "1231", "0101", "0102", "0103"})

C2_Witness ==
    /\ pc = "enum_globbed"
    /\ date = <<2023, 12, 31>>
    /\ centered_date_range = 3
    /\ Len(glob_pattern) = 7
    /\ "0103" \in Range(glob_pattern)

UriForm(year, mmdd, member, horizon) ==
    <<"s3:", "", "noaa-gefs-retrospective", "GEFSv12", "reforecast",
      ToString(year),
      ToString(year) \o mmdd \o "00",
      member,
      horizon,
      variable \o "_" \o ToString(year) \o mmdd \o "00" \o "_" \o member
          \o ".grib2.idx">>

\* C8: generate_reforecast_uris yields one index-file URI per combination of
\* a year of 2000..2019, a day pattern and a member, and no others
\* (20 x |patterns| x |members| in all, 140 for 7 patterns and 1 member),
\* each of the form
\* {root}/{year}/{year}{MMDD}00/{member}/{horizon}/{variable}_{year}{MMDD}00_{member}.grib2.idx
C8_UriEnumeration ==
    pc = "enum_done" =>
        /\ Len(reforecast_urls) = 20 * Len(glob_pattern) * Len(members)
        /\ Range(reforecast_urls) =
               {UriForm(y, p, m, forecast_horizon) :
                    y \in 2000..2019, p \in Range(glob_pattern), m \in Range(members)}
        /\ (NoRepeats(glob_pattern) /\ NoRepeats(members) =>
               NoRepeats(reforecast_urls))
        /\ (Len(glob_pattern) = 7 /\ Len(members) = 1 =>
               Len(reforecast_urls) = 140)

C8_Witness ==
    /\ pc = "enum_done"
    /\ Len(glob_pattern) = 7
    /\ members = <<"c00">>
    /\ Len(reforecast_urls) = 140
    /\ UriForm(2019, "0115", "c00", forecast_horizon) \in Range(reforecast_urls)

-----------------------------------------------------------------------------
(* What the constructor reads: the bundled template and the remote store. *)

\* open_rep_file: representative_{variable}.json parsed into a dict; the
\* entries generate_json_files overwrites, and one it leaves alone
open_rep_file ==
    [templates |-> [u |-> "s3://representative.grib2"],
     refs |-> (".zgroup"      :> <<"inline", "zgroup">>) @@
              ("msl/0.0"      :> <<"{{u}}", 0, 1>>) @@
              ("time/0"       :> <<"base64", 0>>) @@
              ("valid_time/0" :> <<"base64", 0>>) @@
              ("step/0"       :> <<"base64", 0>>)]

\* fsspec's _strip_protocol on an "s3://..." path
StripProtocol(path) ==
    IF Len(path) >= 2 /\ path[1] = "s3:" /\ path[2] = ""
    THEN SubSeq(path, 3, Len(path)) ELSE path

\* rf[:-4] on a path that ends in ".idx"
StripIdx(path) ==
    LET n    == Len(path)
        stem == variable \o "_" \o path[n - 3] \o "_" \o path[n - 2] \o ".grib2"
    IN  IF stem \o ".idx" = path[n] THEN [path EXCEPT ![n] = stem] ELSE <<"?">>

\* the size the store reports for an object: one value per object
ArchiveSize(path) == [size_of |-> StripProtocol(path)]

\* the bytes the store holds for an index object
ArchiveContent(path) == [content_of |-> StripProtocol(path)]

RECURSIVE Dedup(_)
\* the distinct elements of a list, each at its first position
Dedup(s) ==
    IF Len(s) <= 1 THEN s
    ELSE LET half  == Len(s) \div 2
             left  == Dedup(SubSeq(s, 1, half))
             right == Dedup(SubSeq(s, half + 1, Len(s)))
             seen  == Range(left)
             New(x) == x \notin seen
         IN  left \o SelectSeq(right, New)

\* "MMDD00" for every month-day number 100 * month + day
DayCodes == [n \in 101..1231 |-> Fmt02(n \div 100) \o Fmt02(n % 100) \o "00"]

MemberAlphabet == <<"0", "c", "c00", "p01", "p02", "p03", "p04">>

\* the place of a stripped key in the lexicographic order of strings: its
\* segments differ in the year, the date code and the member only
SortKey(key) ==
    LET n == Len(key)
    IN  <<CHOOSE y \in FirstYear..(StopYear - 1) : ToString(y) = key[n - 4],
          CHOOSE c \in 101..1231 : key[n - 4] \o DayCodes[c] = key[n - 3],
          CHOOSE r \in 1..Len(MemberAlphabet) : MemberAlphabet[r] = key[n - 2]>>

KeyLess(a, b) ==
    \/ a[1][1] < b[1][1]
    \/ a[1][1] = b[1][1] /\ a[1][2] < b[1][2]
    \/ a[1][1] = b[1][1] /\ a[1][2] = b[1][2] /\ a[1][3] < b[1][3]

\* sorted(paths)
Sorted(paths) ==
    LET keyed == [i \in 1..Len(paths) |-> <<SortKey(paths[i]), paths[i]>>]
        inorder == SortSeq(keyed, KeyLess)
    IN  [i \in 1..Len(inorder) |-> inorder[i][2]]

\* The orders in which fs_read._cat may return its {path: bytes} entries:
\* that of the request, or that of the sorted expanded paths.
CatOrders == {"as_requested", "sorted"}

\* fs_read._cat(paths): protocol-stripped keys, each once
cat_result(paths, ord) ==
    LET keys == Dedup([i \in 1..Len(paths) |-> StripProtocol(paths[i])])
        out  == IF ord = "sorted" THEN Sorted(keys) ELSE keys
    IN  [i \in 1..Len(out) |-> <<out[i], ArchiveContent(out[i])>>]

\* zip(a, b): as long as the shorter of the two
Zip(a, b) ==
    [i \in 1..(IF Len(a) < Len(b) THEN Len(a) ELSE Len(b)) |-> <<a[i], b[i]>>]

-----------------------------------------------------------------------------
(* Spec: the constructor __init__ (lines 73-96) and work_coroutine.        *)

CtorMaxW == 1

CtorDates == {<<2023, 1, 15>>, <<2023, 12, 31>>}

\* the members argument: None, a string (as its characters), or a list
MembersArgs ==
    {[kind |-> "None", value |-> <<>>],
     [kind |-> "str",  value |-> <<"c", "0", "0">>],
     [kind |-> "list", value |-> <<"p01", "c00">>]}

default_members == <<"c00", "p01", "p02", "p03", "p04">>

Init ==
    /\ pc = "init"
    /\ date \in CtorDates
    /\ fhour \in (0 - 3)..MaxFhour
    /\ centered_date_range \in 0..CtorMaxW
    /\ members \in MembersArgs
    /\ forecast_horizon \in Horizons
    /\ order \in 0..MaxOrder
    /\ message_num = "unset"
    /\ error = "none"
    /\ glob_pattern = <<>>
    /\ reforecast_urls = <<>>
    /\ representative_json_data = 0
    /\ session = "none"
    /\ issued = [info |-> 0, cat |-> 0]
    /\ idx_files = <<>>
    /\ files_info = <<>>
    /\ files_metadata_dict = <<>>
    /\ heap = <<>>
    /\ directory_set \in BOOLEAN
    /\ data_to_replace = 0
    /\ todo = <<>>
    /\ written = {}

\* lines 73-78: the directory, self.date, self.fhour and the forecast-hour check
CheckFhour ==
    /\ pc = "init"
    /\ LET r == fhour_to_message_num(fhour)
       IN  IF r.ok
           THEN /\ message_num' = r.value
                /\ pc' = "local"
                /\ error' = error
           ELSE /\ message_num' = message_num
                /\ pc' = "raised"
                /\ error' = r.msg
    /\ UNCHANGED <<date, fhour, centered_date_range, members, forecast_horizon,
                   order, glob_pattern, reforecast_urls,
                   representative_json_data, session, issued, idx_files,
                   files_info, files_metadata_dict, heap, directory_set,
                   data_to_replace, todo, written>>

\* lines 79-93: the template, the day patterns, the members, the URIs
Enumerate ==
    /\ pc = "local"
    /\ representative_json_data' = 1
    /\ heap' = (1 :> open_rep_file)
    /\ LET gp == date_to_glob_pattern(date, centered_date_range, order)
           ms == IF members.kind = "None" THEN default_members ELSE members.value
       IN  /\ glob_pattern' = gp
           /\ members' = ms
           /\ reforecast_urls' = generate_reforecast_uris(gp, ms, forecast_horizon)
    /\ pc' = "set_session"
    /\ UNCHANGED <<date, fhour, centered_date_range, forecast_horizon, order,
                   message_num, error, session, issued, idx_files, files_info,
                   files_metadata_dict, directory_set, data_to_replace,
                   todo, written>>

\* line 149: session = await fs_read.set_session()
SetSession ==
    /\ pc = "set_session"
    /\ session' = "open"
    /\ pc' = "gather_info"
    /\ UNCHANGED <<date, fhour, centered_date_range, members, forecast_horizon,
                   order, message_num, error, glob_pattern, reforecast_urls,
                   representative_json_data, issued, idx_files, files_info,
                   files_metadata_dict, heap, directory_set, data_to_replace,
                   todo, written>>

\* lines 152-156: every size query is issued and gathered; all answer
GatherInfoOk ==
    /\ pc = "gather_info"
    /\ issued' = [issued EXCEPT !.info = Len(reforecast_urls)]
    /\ files_info' = [i \in 1..Len(reforecast_urls) |->
                         [size |-> ArchiveSize(StripIdx(reforecast_urls[i]))]]
    /\ pc' = "await_data"
    /\ UNCHANGED <<date, fhour, centered_date_range, members, forecast_horizon,
                   order, message_num, error, glob_pattern, reforecast_urls,
                   representative_json_data, session, idx_files,
                   files_metadata_dict, heap, directory_set, data_to_replace,
                   todo, written>>

\* line 156: one size query raises, and gather re-raises it in work_coroutine
GatherInfoFail ==
    /\ pc = "gather_info"
    /\ issued' = [issued EXCEPT !.info = Len(reforecast_urls)]
    /\ error' = "FileNotFoundError"
    /\ pc' = "raised"
    /\ UNCHANGED <<date, fhour, centered_date_range, members, forecast_horizon,
                   order, message_num, glob_pattern, reforecast_urls,
                   representative_json_data, session, idx_files, files_info,
                   files_metadata_dict, heap, directory_set, data_to_replace,
                   todo, written>>

\* line 158: out = await data_task, the batched content fetch
AwaitDataOk ==
    /\ pc = "await_data"
    /\ issued' = [issued EXCEPT !.cat = Len(reforecast_urls)]
    /\ \E ord \in CatOrders : idx_files' = cat_result(reforecast_urls, ord)
    /\ pc' = "close"
    /\ UNCHANGED <<date, fhour, centered_date_range, members, forecast_horizon,
                   order, message_num, error, glob_pattern, reforecast_urls,
                   representative_json_data, session, files_info,
                   files_metadata_dict, heap, directory_set, data_to_replace,
                   todo, written>>

\* line 158: the content fetch raises (on_error="raise")
AwaitDataFail ==
    /\ pc = "await_data"
    /\ issued' = [issued EXCEPT !.cat = Len(reforecast_urls)]
    /\ error' = "FileNotFoundError"
    /\ pc' = "raised"
    /\ UNCHANGED <<date, fhour, centered_date_range, members, forecast_horizon,
                   order, message_num, glob_pattern, reforecast_urls,
                   representative_json_data, session, idx_files, files_info,
                   files_metadata_dict, heap, directory_set, data_to_replace,
                   todo, written>>

\* line 159: await session.close()
CloseSession ==
    /\ pc = "close"
    /\ session' = "closed"
    /\ pc' = "returned"
    /\ UNCHANGED <<date, fhour, centered_date_range, members, forecast_horizon,
                   order, message_num, error, glob_pattern, reforecast_urls,
                   representative_json_data, issued, idx_files, files_info,
                   files_metadata_dict, heap, directory_set, data_to_replace,
                   todo, written>>

\* lines 94-96: the sizes, paired with the keys of idx_files by position
PairSizes ==
    /\ pc = "returned"
    /\ LET file_sizes == [i \in 1..Len(files_info) |-> files_info[i].size]
           keys       == [i \in 1..Len(idx_files) |-> idx_files[i][1]]
       IN  files_metadata_dict' = Zip(keys, file_sizes)
    /\ pc' = "constructed"
    /\ UNCHANGED <<date, fhour, centered_date_range, members, forecast_horizon,
                   order, message_num, error, glob_pattern, reforecast_urls,
                   representative_json_data, session, issued, idx_files,
                   files_info, heap, directory_set, data_to_replace, todo,
                   written>>

Next ==
    \/ CheckFhour
    \/ Enumerate
    \/ SetSession
    \/ GatherInfoOk
    \/ GatherInfoFail
    \/ AwaitDataOk
    \/ AwaitDataFail
    \/ CloseSession
    \/ PairSizes

Spec == Init /\ [][Next]_vars

-----------------------------------------------------------------------------
(* The constructor's claims. *)

AssertionMessages ==
    {"No hour 0 forecast available", "Forecast hour must be divisible by 3"}

\* C1: fhour_to_message_num maps a positive multiple of 3 to fhour/3 - 1
\* (3->0, 6->1, 9->2, 12->3), fails with "No hour 0 forecast available" for
\* fhour = 0 and with "Forecast hour must be divisible by 3" for an fhour that
\* is no multiple of 3.
C1_FhourToMessageNum ==
    pc # "init" =>
        /\ (fhour = 0 =>
               pc = "raised" /\ error = "No hour 0 forecast available")
        /\ (fhour % 3 # 0 =>
               pc = "raised" /\ error = "Forecast hour must be divisible by 3")
        /\ (fhour > 0 /\ fhour % 3 = 0 =>
               /\ error \notin AssertionMessages
               /\ 3 * (message_num + 1) = fhour
               /\ (fhour = 3 => message_num = 0)
               /\ (fhour = 6 => message_num = 1)
               /\ (fhour = 9 => message_num = 2)
               /\ (fhour = 12 => message_num = 3))

C1_Witness ==
    /\ pc = "local"
    /\ fhour = 12
    /\ message_num = 3

\* C4: the size files_metadata_dict holds for an index key is the size of that
\* key's own binary file (the key without ".idx"), whatever order the content
\* fetch returned its entries in.
C4_SizeOfOwnFile ==
    pc = "constructed" =>
        \A i \in 1..Len(files_metadata_dict) :
            files_metadata_dict[i][2] = ArchiveSize(StripIdx(files_metadata_dict[i][1]))

\* C5: whenever the fetch stage has ended, by returning or by a failed size
\* query or content fetch, the session it opened has been closed.
C5_SessionReleased ==
    (pc \in {"raised", "returned", "constructed"} /\ session # "none") =>
        session = "closed"

\* C9: no session is opened and no size query or content fetch is issued
\* unless the forecast-hour check has been made and has passed; a constructor
\* given fhour = 0 or an fhour that is no multiple of 3 never reaches the store.
C9_NoRemoteBeforeCheck ==
    (session # "none" \/ issued.info > 0 \/ issued.cat > 0) =>
        /\ pc \notin {"init", "local"}
        /\ error \notin AssertionMessages
        /\ fhour # 0
        /\ fhour % 3 = 0

C9_Witness ==
    /\ pc = "raised"
    /\ fhour = 4
    /\ error = "Forecast hour must be divisible by 3"
    /\ session = "none"
    /\ issued.info = 0
    /\ issued.cat = 0

-----------------------------------------------------------------------------
(* Index files as generate_json_files reads them.  A text is its lines and *)
(* whether a newline ends it; a line is its ":"-separated fields; a field  *)
(* is its characters.                                                       *)

MaxMsgs == 3

DigitChars == {"0", "1", "2", "3", "4", "5", "6", "7", "8", "9"}

IsDigit(c) == c \in DigitChars

DigitValue(c) == CHOOSE n \in 0..9 : Digit(n) = c

RECURSIVE DecimalValue(_)
DecimalValue(chars) ==
    IF chars = <<>> THEN 0
    ELSE 10 * DecimalValue(SubSeq(chars, 1, Len(chars) - 1))
             + DigitValue(chars[Len(chars)])

\* whether int(field) returns rather than raising ValueError
IsInt(chars) == chars # <<>> /\ \A i \in 1..Len(chars) : IsDigit(chars[i])

RECURSIVE IntToChars(_)
IntToChars(n) ==
    IF n < 10 THEN <<Digit(n)>> ELSE Append(IntToChars(n \div 10), Digit(n % 10))

\* text.split("\n")[:-1]
SplitLines(text) ==
    IF text.newline THEN text.lines
    ELSE SubSeq(text.lines, 1, Len(text.lines) - 1)

\* The archive's files: message k (from 0) of a file is MessageLength(k)
\* bytes long and holds the forecast for hour 3 * (k + 1).
MessageLength(k) == 10 + k

RECURSIVE MessageOffset(_)
MessageOffset(k) ==
    IF k = 0 THEN 0 ELSE MessageOffset(k - 1) + MessageLength(k - 1)

IndexLine(k) ==
    <<IntToChars(k + 1), IntToChars(MessageOffset(k)), <<"d">>, <<"P">>, <<"m">>,
      IntToChars(3 * (k + 1)) \o <<" ", "h">>, <<"E">>>>

WellFormed(n) == [lines |-> [k \in 1..n |-> IndexLine(k - 1)], newline |-> TRUE]

BreakKinds == {"short_line", "bad_offset", "no_step_digits", "few_fields"}

\* a well-formed text with one line damaged
Broken(kind, p) ==
    LET good == WellFormed(MaxMsgs)
        line == good.lines[p]
        bad  == CASE kind = "short_line"     -> <<<<"x">>>>
                  [] kind = "bad_offset"     -> [line EXCEPT ![2] = <<"x">>]
                  [] kind = "no_step_digits" -> [line EXCEPT ![6] = <<"a", "n", "l">>]
                  [] kind = "few_fields"     -> SubSeq(line, 1, 3)
    IN  [good EXCEPT !.lines[p] = bad]

IndexTexts ==
    {WellFormed(n) : n \in 0..MaxMsgs}
        \cup {Broken(kind, p) : kind \in BreakKinds, p \in 1..2}
        \cup {[WellFormed(MaxMsgs) EXCEPT !.newline = FALSE]}

\* the size of the binary file a text indexes
BinarySize(text) == MessageOffset(Len(text.lines))

-----------------------------------------------------------------------------
(* generate_json_files, per file: lines 178-224.                           *)

\* file_location.split("_")[2]: the date code of the file name
DateString(file_location) ==
    CHOOSE s \in {file_location[5]} :
        file_location[8] =
            variable \o "_" \o s \o "_" \o file_location[6] \o ".grib2.idx"

\* file_location.split("/")[7].split(".")[0]
NameStem(file_location) ==
    CHOOSE s \in {variable \o "_" \o file_location[5] \o "_" \o file_location[6]} :
        file_location[8] = s \o ".grib2.idx"

\* np.datetime64(formatted_date, "s") as seconds since 1970-01-01T00
npdt64date(file_location) ==
    LET ds == DateString(file_location)
        y  == CHOOSE y \in FirstYear..(StopYear - 1) :
                  \E c \in 101..1231 : ToString(y) \o DayCodes[c] = ds
        c  == CHOOSE c \in 101..1231 : ToString(y) \o DayCodes[c] = ds
    IN  (ymd2ord(<<y, c \div 100, c % 100>>) - ymd2ord(<<1970, 1, 1>>)) * 86400

Raise(exc) == [kind |-> "raise", exc |-> exc, start |-> 0, length |-> 0, step |-> 0]

Range3(start, length, step) ==
    [kind |-> "write", exc |-> "none", start |-> start, length |-> length,
     step |-> step]

Skip == [kind |-> "skip", exc |-> "none", start |-> 0, length |-> 0, step |-> 0]

\* lines 196-209: the payload range of message i (0-based) of the file
message_range(message_nums, message_length, i, step) ==
    LET n == Len(message_nums)
    IN  IF i = 0
        THEN IF n < 2 THEN Raise("IndexError")
             ELSE IF ~IsInt(message_nums[2]) THEN Raise("ValueError")
             ELSE Range3(0, DecimalValue(message_nums[2]), step)
        ELSE IF i = n - 1
        THEN IF ~IsInt(message_nums[i + 1]) THEN Raise("ValueError")
             ELSE Range3(DecimalValue(message_nums[i + 1]),
                         message_length - DecimalValue(message_nums[i + 1]), step)
        ELSE IF ~IsInt(message_nums[i + 1]) \/ ~IsInt(message_nums[i + 2])
             THEN Raise("ValueError")
             ELSE Range3(DecimalValue(message_nums[i + 1]),
                         DecimalValue(message_nums[i + 2])
                             - DecimalValue(message_nums[i + 1]), step)

\* lines 178-209 for one file: what the loop body computes, or how it ends
Resolve(text, message_length, mnum) ==
    LET lines == SplitLines(text)
        n     == Len(lines)
    IN  IF \E l \in 1..n : Len(lines[l]) < 2 THEN Raise("IndexError")
        ELSE IF mnum \notin 0..(n - 1) THEN Skip
        ELSE LET message_nums == [l \in 1..n |-> lines[l][2]]
                 line         == lines[mnum + 1]
             IN  IF Len(line) < 6 THEN Raise("IndexError")
                 ELSE LET digits == SelectSeq(line[6], IsDigit)
                      IN  IF digits = <<>> THEN Raise("ValueError")
                          ELSE message_range(message_nums, message_length, mnum,
                                             DecimalValue(digits))

Lookup(dict, key) == dict[CHOOSE i \in 1..Len(dict) : dict[i][1] = key][2]

\* f"s3://{file_location[:-4]}"
BoundUrl(file_location) == <<"s3:", "">> \o StripIdx(file_location)

\* lines 210-220 on a dict that keeps the bound URL it already has
Patch_keeps_url(d, file_location, r) ==
    [templates |-> IF d.templates = open_rep_file.templates
                   THEN [u |-> BoundUrl(file_location)] ELSE d.templates,
     refs |-> [d.refs EXCEPT
                  !["msl/0.0"] = <<"{{u}}", r.start, r.length>>,
                  !["time/0"] = <<"base64", npdt64date(file_location)>>,
                  !["valid_time/0"] =
                      <<"base64", npdt64date(file_location) + 3600 * r.step>>,
                  !["step/0"] = <<"base64", r.step>>]]

\* lines 210-220: the five entries assigned in the dict data_to_replace
Patch(d, file_location, r) ==
    [d EXCEPT
        !.refs["msl/0.0"] = <<"{{u}}", r.start, r.length>>,
        !.templates = [u |-> BoundUrl(file_location)],
        !.refs["time/0"] = <<"base64", npdt64date(file_location)>>,
        !.refs["valid_time/0"] =
            <<"base64", npdt64date(file_location) + 3600 * r.step>>,
        !.refs["step/0"] = <<"base64", r.step>>]

\* line 223: the name of the file written
OutputName(file_location, i) == NameStem(file_location) \o "_" \o Fmt02(i) \o ".json"

\* a file of the output directory is created or overwritten
WriteFile(dir, name, doc) == {f \in dir : f[1] # name} \cup {<<name, doc>>}

-----------------------------------------------------------------------------
(* SpecGen: generate_json_files on a constructed object.                   *)

\* a key of idx_files: an enumerated URI as _cat returns it
ArchiveKey(year, mmdd, member) ==
    StripProtocol(WithFileName(
        Cat(WithDay(Cat(base_s3_reforecast, <<ToString(year), ToString(year)>>), mmdd),
            <<member, "Days:1-10", "">>)))

GenKeys ==
    <<ArchiveKey(2000, "0228", "c00"),
      ArchiveKey(2000, "0229", "p01"),
      ArchiveKey(2001, "0301", "c00")>>

NoError == [kind |-> "none", file |-> <<>>]

InitGen ==
    /\ pc = "gen_init"
    /\ date = <<2000, 2, 29>>
    /\ fhour \in {h \in (0 - 3)..MaxFhour : fhour_to_message_num(h).ok}
    /\ message_num = fhour_to_message_num(fhour).value
    /\ centered_date_range = 1
    /\ members = <<"c00", "p01">>
    /\ forecast_horizon = "Days:1-10"
    /\ order = 0
    /\ error = NoError
    /\ glob_pattern = <<>>
    /\ reforecast_urls = <<>>
    /\ representative_json_data = 1
    /\ heap = (1 :> open_rep_file)
    /\ session = "closed"
    /\ issued = [info |-> 0, cat |-> 0]
    /\ \E n \in 1..Len(GenKeys) : \E texts \in [1..n -> IndexTexts] :
        \* the sizes are paired with their own keys, or one key further
        \E shift \in {0, 1} :
           /\ idx_files = [i \in 1..n |-> <<GenKeys[i], texts[i]>>]
           /\ files_info = [i \in 1..n |-> [size |-> BinarySize(texts[i])]]
           /\ files_metadata_dict =
                  [i \in 1..n |->
                      <<GenKeys[i], BinarySize(texts[((i - 1 + shift) % n) + 1])>>]
    /\ directory_set \in BOOLEAN
    /\ data_to_replace = 0
    /\ todo = <<>>
    /\ written = {}

\* lines 175-176: the keys to visit, and a fresh parse of the template
GenStart ==
    /\ pc = "gen_init"
    /\ todo' = [i \in 1..Len(idx_files) |-> idx_files[i][1]]
    /\ data_to_replace' = 2
    /\ heap' = heap @@ (2 :> open_rep_file)
    /\ pc' = "gen_loop"
    /\ UNCHANGED <<date, fhour, centered_date_range, members, forecast_horizon,
                   order, message_num, error, glob_pattern, reforecast_urls,
                   representative_json_data, session, issued, idx_files,
                   files_info, files_metadata_dict, directory_set, written>>

Resolved(file_location) ==
    Resolve(Lookup(idx_files, file_location),
            Lookup(files_metadata_dict, file_location), message_num)

\* lines 177-224, a file whose target message is found: the dict is patched
\* and written out
ProcessFileWrites ==
    /\ pc = "gen_loop"
    /\ todo # <<>>
    /\ LET file_location == Head(todo)
           r == Resolved(file_location)
           d == Patch(heap[data_to_replace], file_location, r)
       IN  /\ r.kind = "write"
           /\ directory_set
           /\ heap' = [heap EXCEPT ![data_to_replace] = d]
           /\ written' = WriteFile(written, OutputName(file_location, message_num), d)
    /\ todo' = Tail(todo)
    /\ UNCHANGED <<pc, date, fhour, centered_date_range, members,
                   forecast_horizon, order, message_num, error, glob_pattern,
                   reforecast_urls, representative_json_data, session, issued,
                   idx_files, files_info, files_metadata_dict, directory_set,
                   data_to_replace>>

\* lines 177-224, a file whose index has no line for the target message: the
\* loop over its lines ends without a match
ProcessFileSkips ==
    /\ pc = "gen_loop"
    /\ todo # <<>>
    /\ Resolved(Head(todo)).kind = "skip"
    /\ todo' = Tail(todo)
    /\ UNCHANGED <<pc, date, fhour, centered_date_range, members,
                   forecast_horizon, order, message_num, error, glob_pattern,
                   reforecast_urls, representative_json_data, session, issued,
                   idx_files, files_info, files_metadata_dict, heap,
                   directory_set, data_to_replace, written>>

\* lines 177-224, a file on which a statement raises: the exception leaves
\* generate_json_files (self.directory is unset when a directory was passed)
ProcessFileRaises ==
    /\ pc = "gen_loop"
    /\ todo # <<>>
    /\ LET file_location == Head(todo)
           r == Resolved(file_location)
       IN  \/ /\ r.kind = "raise"
              /\ error' = [kind |-> r.exc, file |-> file_location]
              /\ heap' = heap
           \/ /\ r.kind = "write"
              /\ ~directory_set
              /\ error' = [kind |-> "AttributeError", file |-> file_location]
              /\ heap' = [heap EXCEPT ![data_to_replace] =
                             Patch(heap[data_to_replace], file_location, r)]
    /\ todo' = Tail(todo)
    /\ pc' = "gen_raised"
    /\ UNCHANGED <<date, fhour, centered_date_range, members, forecast_horizon,
                   order, message_num, glob_pattern, reforecast_urls,
                   representative_json_data, session, issued, idx_files,
                   files_info, files_metadata_dict, directory_set,
                   data_to_replace, written>>

\* the loop of line 177 is exhausted
GenReturn ==
    /\ pc = "gen_loop"
    /\ todo = <<>>
    /\ pc' = "gen_done"
    /\ UNCHANGED <<date, fhour, centered_date_range, members, forecast_horizon,
                   order, message_num, error, glob_pattern, reforecast_urls,
                   representative_json_data, session, issued, idx_files,
                   files_info, files_metadata_dict, heap, directory_set,
                   data_to_replace, todo, written>>

NextGen ==
    \/ GenStart
    \/ ProcessFileWrites
    \/ ProcessFileSkips
    \/ ProcessFileRaises
    \/ GenReturn

SpecGen == InitGen /\ [][NextGen]_vars

-----------------------------------------------------------------------------
(* The claims about generate_json_files. *)

Keys == [i \in 1..Len(idx_files) |-> idx_files[i][1]]

\* the files the loop of line 177 has been through
Visited == {f \in Range(Keys) : pc \in {"gen_loop", "gen_done", "gen_raised"}
                                    /\ f \notin Range(todo)}

DocumentsNamed(name) == {w[2] : w \in {x \in written : x[1] = name}}

Reported(f) == error.kind # "none" /\ error.file = f

RunEnded == pc \in {"gen_done", "gen_raised"}

\* C3: for an index of N >= 1 messages at offsets offset[0..N-1], a file size S
\* and a target ordinal k in 0..N-1, the payload range written is
\* (offset[N-1], S - offset[N-1]) when k = N-1 (also when N = 1),
\* (0, offset[1]) when k = 0 and N > 1, and (offset[k], offset[k+1] - offset[k])
\* for a k in between.  S is the size held for the file in files_metadata_dict;
\* the output directory is taken to be there.
C3_PayloadRange ==
    \A f \in Visited :
        LET text == Lookup(idx_files, f)
            N    == Len(text.lines)
            k    == message_num
            S    == Lookup(files_metadata_dict, f)
            offset(j) == DecimalValue(text.lines[j + 1][2])
            expected ==
                IF k = N - 1 THEN <<"{{u}}", offset(N - 1), S - offset(N - 1)>>
                ELSE IF k = 0 THEN <<"{{u}}", 0, offset(1)>>
                ELSE <<"{{u}}", offset(k), offset(k + 1) - offset(k)>>
        IN  (/\ directory_set
             /\ \E n \in 1..MaxMsgs : text = WellFormed(n)
             /\ k \in 0..(N - 1))
            => \E doc \in DocumentsNamed(OutputName(f, k)) :
                   doc.refs["msl/0.0"] = expected

\* C6: a file whose index has no record for the target ordinal (fewer than
\* ordinal + 1 records, or none at all) is reported as an error once the loop
\* has been through it.
C6_MissingOrdinalReported ==
    \A f \in Visited :
        LET n == Len(SplitLines(Lookup(idx_files, f)))
        IN  (n = 0 \/ n < message_num + 1) => Reported(f)

\* C7: when generate_json_files has ended, every file that is processed
\* without error on its own has its reference document in the output
\* directory, wherever a failing file stood in the order.
C7_FailureIsolated ==
    (RunEnded /\ directory_set) =>
        \A f \in Range(Keys) :
            Resolved(f).kind = "write" =>
                DocumentsNamed(OutputName(f, message_num)) # {}

\* the reference document a pristine template gives for one file
Fill(template, f, r) ==
    [templates |-> [u |-> BoundUrl(f)],
     refs |-> (".zgroup"      :> template.refs[".zgroup"]) @@
              ("msl/0.0"      :> <<"{{u}}", r.start, r.length>>) @@
              ("time/0"       :> <<"base64", npdt64date(f)>>) @@
              ("valid_time/0" :> <<"base64", npdt64date(f) + 3600 * r.step>>) @@
              ("step/0"       :> <<"base64", r.step>>)]

\* C10: every reference document written is the pristine template filled with
\* the values of its own file only (payload range, bound URL, time, valid_time
\* and step), whatever was processed before it, and the template held in
\* representative_json_data stays as loaded.
C10_PristineFill ==
    /\ \A w \in written :
           \E f \in Range(Keys) :
               /\ Resolved(f).kind = "write"
               /\ w[1] = OutputName(f, message_num)
               /\ w[2] = Fill(open_rep_file, f, Resolved(f))
    /\ heap[representative_json_data] = open_rep_file

C10_Witness ==
    /\ pc = "gen_done"
    /\ Cardinality(written) = 3
    /\ message_num = 1
    /\ \E w \in written :
           /\ w[1] = "pres_msl_2001030100_c00_01.json"
           /\ w[2].refs["msl/0.0"] = <<"{{u}}", 10, 11>>
           /\ w[2].refs["step/0"] = <<"base64", 6>>

=============================================================================
